---- MODULE Spec2Model ----
(***************************************************************************)
(* A model of the ametrine launcher (src/src/main.cc): the manifest,       *)
(* version and asset-index fetches of the Launch handler, the platform     *)
(* rule filter of VersionInfo::fromJson, and the download registry of      *)
(* Launcher.                                                               *)
(*                                                                         *)
(* The build modelled is the Linux one: OS_NAME is "linux" and no          *)
(* conditional JVM flag is emitted.  Strings are TLA+ strings.  A          *)
(* QJsonValue that holds a string s is the pair <<"string", s>>, a number  *)
(* n is <<"number", n>>, and an absent (Undefined) value is the empty      *)
(* tuple <<>>.                                                             *)
(***************************************************************************)
EXTENDS Integers, Sequences, FiniteSets, TLC

\* ------------------------------------------------------------------ bounds
\* The number of times the Launch button is pressed in a behaviour.
MaxLaunches == 2
\* The number of downloads the network lets fail in a behaviour.
MaxFailures == 2
\* The longest rule list drawn for the rule evaluator.
MaxRules == 3
\* The longest library array drawn for the version resolver and the launch
\* builder.
MaxLibs == 3

\* --------------------------------------------------------------- constants
OS_NAME == "linux"
USERNAME == "joebiden"
PISTON_URL == "https://piston-meta.mojang.com/mc/game/version_manifest_v2.json"
RESOURCES_ENDPOINT == "https://resources.download.minecraft.net/"
LIBRARIES_ENDPOINT == "https://libraries.minecraft.net/"

\* The directories the platform hands out (QStandardPaths).
getDataDirectory == "/data"
getCacheDirectory == "/cache"

\* QDir::filePath: the directory, a separator, the relative name.
filePath(dir, name) == dir \o "/" \o name

\* QDir::listSeparator on a non-Windows host.
listSeparator == ":"

\* -------------------------------------------------------------- JSON values
Undefined == <<>>
Str(s) == <<"string", s>>
Num(n) == <<"number", n>>

\* QJsonValue::toString: the string, or "" for a value that is no string.
toString(v) ==
  IF v = Undefined THEN ""
  ELSE IF v[1] = "string" THEN v[2]
  ELSE ""

\* QJsonValue::toInt: the number, or 0 for a value that is no number.  (The
\* numbers of the model are integers within the range of int.)
toInt(v) ==
  IF v = Undefined THEN 0
  ELSE IF v[1] = "number" THEN v[2]
  ELSE 0

\* The assignment of an int to the quint16 field jvmVersion.
ToQuint16(n) == n % 65536

\* A null QJsonDocument (the reply failed, or its body did not parse): every
\* member lookup yields Undefined and every toArray() the empty array.
NullVersionDoc ==
  [type |-> Undefined, mainClass |-> Undefined, assets |-> Undefined,
   assetIndexUrl |-> Undefined, clientUrl |-> Undefined,
   javaMajor |-> Undefined, libraries |-> <<>>]

NullManifestDoc ==
  [release |-> Undefined, snapshot |-> Undefined, versions |-> <<>>]

NullAssetDoc == [objects |-> <<>>]

\* ----------------------------------------------------------- VersionManifest
RECURSIVE VersionUrlsFromJson(_, _, _)
\* The loop of VersionManifest::fromJson: a later entry of the same id
\* overwrites an earlier one.
VersionUrlsFromJson(versions, i, acc) ==
  IF i > Len(versions) THEN acc
  ELSE LET id == toString(versions[i].id)
           url == toString(versions[i].url)
           next == [k \in (DOMAIN acc) \cup {id} |->
                      IF k = id THEN url ELSE acc[k]]
       IN VersionUrlsFromJson(versions, i + 1, next)

VersionManifestFromJson(data) ==
  [latestRelease |-> toString(data.release),
   latestSnapshot |-> toString(data.snapshot),
   versionUrls |-> VersionUrlsFromJson(data.versions, 1, <<>>)]

\* QMap::operator[] const: the value of the key, or a default-constructed
\* QString when the key is absent.
VersionUrlOf(m, id) ==
  IF id \in DOMAIN m.versionUrls THEN m.versionUrls[id] ELSE ""

\* -------------------------------------------------------------- rule filter
\* The condition of lines 69-70: the clause sends the library to `end`.
RuleViolated(rule) ==
  \/ rule.action = Str("allow") /\ rule.osName # Str(OS_NAME)
  \/ rule.action = Str("disallow") /\ rule.osName = Str(OS_NAME)

\* Mutant of RulesJumpToEnd: the last clause alone decides.
RulesLastClauseDecides(rules, i) ==
  IF Len(rules) = 0 THEN FALSE ELSE RuleViolated(rules[Len(rules)])

RECURSIVE RulesJumpToEnd(_, _)
\* The loop of lines 68-73 from clause i on: TRUE when some clause takes the
\* goto, the loop stopping at the first such clause.
RulesJumpToEnd(rules, i) ==
  IF i > Len(rules) THEN FALSE
  ELSE IF RuleViolated(rules[i]) THEN TRUE
  ELSE RulesJumpToEnd(rules, i + 1)

\* Lines 67-76 for one library entry: TRUE when line 75 is reached.
LibraryIncluded(lib) ==
  ~(lib.rulesIsArray /\ RulesJumpToEnd(lib.rules, 1))

RECURSIVE LibrariesUntilExcluded(_, _, _)
\* Mutant of LibrariesFromJson: an excluded entry ends the whole loop.
LibrariesUntilExcluded(libs, i, acc) ==
  IF i > Len(libs) THEN acc
  ELSE IF LibraryIncluded(libs[i])
       THEN LibrariesUntilExcluded(libs, i + 1,
                                   Append(acc, toString(libs[i].path)))
       ELSE acc

RECURSIVE LibrariesFromJson(_, _, _)
\* The loop of lines 66-77 from entry i on, acc being info.libraries so far.
LibrariesFromJson(libs, i, acc) ==
  IF i > Len(libs) THEN acc
  ELSE IF LibraryIncluded(libs[i])
       THEN LibrariesFromJson(libs, i + 1, Append(acc, toString(libs[i].path)))
       ELSE LibrariesFromJson(libs, i + 1, acc)

VersionInfoFromJson(id, data) ==
  [id |-> id,
   type |-> toString(data.type),
   mainClass |-> toString(data.mainClass),
   assets |-> toString(data.assets),
   assetIndex |-> toString(data.assetIndexUrl),
   clientJar |-> toString(data.clientUrl),
   jvmVersion |-> ToQuint16(toInt(data.javaMajor)),
   libraries |-> LibrariesFromJson(data.libraries, 1, <<>>)]

\* ------------------------------------------------------------- file system
Min(a, b) == IF a < b THEN a ELSE b

\* QString::left(n).
left(s, n) == SubSeq(s, 1, Min(n, Len(s)))

\* The position of the last "/" of p at or before position i, 0 when none.
LastSlash(p, i) ==
  LET last[k \in 0..i] ==
        IF k = 0 THEN 0
        ELSE IF SubSeq(p, k, k) = "/" THEN k
        ELSE last[k - 1]
  IN last[i]

\* QFileInfo(path).dir(): the path up to its last separator.
DirOf(p) ==
  LET k == LastSlash(p, Len(p))
  IN IF k = 0 THEN "." ELSE IF k = 1 THEN "/" ELSE SubSeq(p, 1, k - 1)

\* An absolute directory and every directory above it, the root excluded.
DirChain(d) ==
  {SubSeq(d, 1, k - 1) : k \in {i \in 2..Len(d) : SubSeq(d, i, i) = "/"}}
    \cup {d}

\* The file system resolves a path segment by segment, from the root for an
\* absolute path and from the working directory "." for a relative one: an
\* empty segment and "." stay, ".." goes to the directory above, a name goes
\* into that directory.  A disk holds the directories above each of its
\* files and directories, and no symbolic links.

\* What stands between the separators of `path`, in order, without the empty
\* and the "." segments.
Segments(path) ==
  CHOOSE segs \in
    {SelectSeq(
       [j \in 1..(Cardinality(cuts) - 1) |->
          SubSeq(path,
                 1 + (CHOOSE a \in cuts :
                        Cardinality({c \in cuts : c < a}) = j - 1),
                 (CHOOSE b \in cuts :
                    Cardinality({c \in cuts : c < b}) = j) - 1)],
       LAMBDA seg : seg \notin {"", "."}) :
     cuts \in {{0, Len(path) + 1} \cup
               {k \in 1..Len(path) : SubSeq(path, k, k) = "/"}}} : TRUE

\* The directory above `dir`.
Parent(dir) ==
  IF dir = "/" THEN "/"
  ELSE IF dir = "." THEN ".."
  ELSE IF dir = ".." THEN "../.."
  ELSE IF Len(dir) > 2 /\ SubSeq(dir, Len(dir) - 2, Len(dir)) = "/.."
    THEN dir \o "/.."
  ELSE DirOf(dir)

\* The entry `name` of `dir`.
Child(dir, name) ==
  IF dir = "/" THEN "/" \o name
  ELSE IF dir = "." THEN name
  ELSE dir \o "/" \o name

\* Whether `name` is a directory: one of the disk, the working directory or
\* a directory above it.
IsDir(dirSet, name) ==
  \/ name \in dirSet
  \/ name \in {".", ".."}
  \/ Len(name) > 2 /\ SubSeq(name, Len(name) - 2, Len(name)) = "/.."

\* Where the resolution of `path` stands before its first segment and after
\* each segment.
Steps(path) ==
  CHOOSE steps \in
    {LET at[i \in 0..Len(segs)] ==
           IF i = 0
           THEN IF path # "" /\ SubSeq(path, 1, 1) = "/" THEN "/"
                ELSE "."
           ELSE CHOOSE next \in
                  {IF segs[i] = ".." THEN Parent(dir)
                   ELSE Child(dir, segs[i]) : dir \in {at[i - 1]}} : TRUE
     IN [i \in 1..(Len(segs) + 1) |-> at[i - 1]] :
     segs \in {Segments(path)}} : TRUE

\* A path in which every separator is followed by a name: it has no empty,
\* "." or ".." segment and is resolved to itself.
Simple(p) ==
  /\ p # ""
  /\ SubSeq(p, 1, 1) # "."
  /\ \A k \in {i \in 1..Len(p) : SubSeq(p, i, i) = "/"} :
       k < Len(p) /\ SubSeq(p, k + 1, k + 1) \notin {"/", "."}

\* The name under which the file system knows `path` once it is resolved
\* (the empty path names nothing).  Files and directories are recorded under
\* this name.
Clean(path) ==
  CHOOSE name \in
    {IF p = "" \/ Simple(p) THEN p
     ELSE CHOOSE last \in {steps[Len(steps)] : steps \in {Steps(p)}} : TRUE :
     p \in {path}} : TRUE

\* The resolution of `path` on a disk of directories dirSet: the name it
\* arrives at, and whether every directory it goes through is there.
Lookup(dirSet, path) ==
  CHOOSE found \in
    {IF p = "" THEN [ok |-> FALSE, name |-> p]
     ELSE IF Simple(p)
     THEN [ok |-> IsDir(dirSet, DirOf(p)), name |-> p]
     ELSE CHOOSE walked \in
            {[ok |-> \A i \in 1..(Len(steps) - 1) : IsDir(dirSet, steps[i]),
              name |-> steps[Len(steps)]] : steps \in {Steps(p)}} : TRUE :
     p \in {path}} : TRUE

\* A path that can only name a directory: its last segment is empty, "." or
\* "..".
NamesDirectory(p) ==
  LET n == Len(p)
  IN \/ p \in {".", ".."}
     \/ n > 0 /\ SubSeq(p, n, n) = "/"
     \/ n > 1 /\ SubSeq(p, n - 1, n) = "/."
     \/ n > 2 /\ SubSeq(p, n - 2, n) = "/.."

\* QFileInfo(path).exists(): the file system is asked.  A directory of that
\* name exists under any spelling, a regular file only under a spelling that
\* does not name a directory; the empty path never exists.
exists(fileMap, dirSet, path) ==
  /\ path # ""
  /\ \E found \in {Lookup(dirSet, path)} :
       /\ found.ok
       /\ \/ IsDir(dirSet, found.name)
          \/ found.name \in DOMAIN fileMap /\ ~NamesDirectory(path)

\* ------------------------------------------------------------------ Launcher
\* The directories of the Launcher constructor.
assetsDir == filePath(getDataDirectory, "assets")
librariesDir == filePath(getDataDirectory, "libraries")
gameDir(version) ==
  filePath(getDataDirectory, "instances/" \o version.id \o "/minecraft")
versionDir(version) == filePath(getDataDirectory, "versions/" \o version.id)
nativesDir == filePath(getCacheDirectory, "natives")

\* Mutant of downloadAsset: the presence check is left out.
downloadAssetUnchecked(d, fileMap, dirSet, url, path) ==
  LET reply == Len(d.requests) + 1
  IN [requests |-> Append(d.requests, [url |-> url, path |-> path]),
      status |-> Append(d.status, "running"),
      pending |-> [r \in (DOMAIN d.pending) \cup {reply} |->
                     IF r = reply THEN path ELSE d.pending[r]]]

\* Mutant of downloadAsset: the reply is registered under its URL instead of
\* its destination path.
downloadAssetKeyedByUrl(d, fileMap, dirSet, url, path) ==
  IF exists(fileMap, dirSet, path) THEN d
  ELSE LET reply == Len(d.requests) + 1
       IN [requests |-> Append(d.requests, [url |-> url, path |-> path]),
           status |-> Append(d.status, "running"),
           pending |-> [r \in (DOMAIN d.pending) \cup {reply} |->
                          IF r = reply THEN url ELSE d.pending[r]]]

\* Launcher::downloadAsset on the registry d = [requests, status, pending]:
\* nothing when the path exists, else one more request, keyed by its reply.
downloadAsset(d, fileMap, dirSet, url, path) ==
  IF exists(fileMap, dirSet, path) THEN d
  ELSE LET reply == Len(d.requests) + 1
       IN [requests |-> Append(d.requests, [url |-> url, path |-> path]),
           status |-> Append(d.status, "running"),
           pending |-> [r \in (DOMAIN d.pending) \cup {reply} |->
                          IF r = reply THEN path ELSE d.pending[r]]]

RECURSIVE DownloadLibraries(_, _, _, _, _)
\* The loop of lines 302-304 from library i on.
DownloadLibraries(d, fileMap, dirSet, libs, i) ==
  IF i > Len(libs) THEN d
  ELSE DownloadLibraries(
         downloadAsset(d, fileMap, dirSet, LIBRARIES_ENDPOINT \o libs[i],
                       librariesDir \o "/" \o libs[i]),
         fileMap, dirSet, libs, i + 1)

RECURSIVE DownloadObjects(_, _, _, _, _)
\* The loop of lines 306-310 from object i on (QJsonObject iterates in key
\* order, the order of the sequence).
DownloadObjects(d, fileMap, dirSet, objs, i) ==
  IF i > Len(objs) THEN d
  ELSE LET hash == toString(objs[i].hash)
           entry == left(hash, 2) \o "/" \o hash
       IN DownloadObjects(
            downloadAsset(d, fileMap, dirSet, RESOURCES_ENDPOINT \o entry,
                          assetsDir \o "/objects/" \o entry),
            fileMap, dirSet, objs, i + 1)

\* Launcher::downloadFiles: the registry after every request is dispatched.
downloadFiles(version, assets, fileMap, dirSet) ==
  LET none == [requests |-> <<>>, status |-> <<>>, pending |-> <<>>]
      libs == DownloadLibraries(none, fileMap, dirSet, version.libraries, 1)
      objs == DownloadObjects(libs, fileMap, dirSet, assets, 1)
  IN downloadAsset(objs, fileMap, dirSet, version.clientJar,
                   versionDir(version) \o "/client.jar")

RECURSIVE ClasspathReversed(_, _)
\* Mutant of Classpath: the libraries are joined last to first.
ClasspathReversed(libs, i) ==
  IF i > Len(libs) THEN ""
  ELSE ClasspathReversed(libs, i + 1)
         \o librariesDir \o "/" \o libs[i] \o listSeparator

RECURSIVE Classpath(_, _)
\* The loop of lines 236-239 from library i on.
Classpath(libs, i) ==
  IF i > Len(libs) THEN ""
  ELSE librariesDir \o "/" \o libs[i] \o listSeparator \o Classpath(libs, i + 1)

\* Lines 235-240.
classpath(version) ==
  Classpath(version.libraries, 1) \o versionDir(version) \o "/client.jar"

jvm == "/usr/lib/jvm/java-21-openjdk/bin/java"

\* Mutant of LaunchArgs: the access-token flag is left out, as in the unused
\* VersionManager::launchVersion.
LaunchArgsWithoutToken(version) ==
  << "-Djava.library.path=" \o nativesDir,
     "-Djna.tmpdir=" \o nativesDir,
     "-Dorg.lwjgl.system.SharedLibraryExtractPath=" \o nativesDir,
     "-Dio.netty.native.workdir=" \o nativesDir,
     "-Dminecraft.launcher.brand=Ametrine",
     "-Dminecraft.launcher.version=0.1.0",
     "-cp", classpath(version),
     version.mainClass,
     "--username", USERNAME,
     "--version", version.id,
     "--gameDir", gameDir(version),
     "--assetsDir", assetsDir,
     "--assetIndex", version.assets,
     "--versionType", version.type >>

\* Lines 243-278 on a Linux, non-x86-32 build: no conditional JVM flag.
LaunchArgs(version) ==
  << "-Djava.library.path=" \o nativesDir,
     "-Djna.tmpdir=" \o nativesDir,
     "-Dorg.lwjgl.system.SharedLibraryExtractPath=" \o nativesDir,
     "-Dio.netty.native.workdir=" \o nativesDir,
     "-Dminecraft.launcher.brand=Ametrine",
     "-Dminecraft.launcher.version=0.1.0",
     "-cp", classpath(version),
     version.mainClass,
     "--username", USERNAME,
     "--version", version.id,
     "--gameDir", gameDir(version),
     "--assetsDir", assetsDir,
     "--assetIndex", version.assets,
     "--accessToken", "",
     "--versionType", version.type >>

\* ------------------------------------------------------------------- network
\* What the remote side can serve.  Every request can also fail, in which
\* case the reply body is empty and parses to a null document.
GoodVersionDoc ==
  [type |-> Str("release"),
   mainClass |-> Str("net.minecraft.client.main.Main"),
   assets |-> Str("17"),
   assetIndexUrl |-> Str("https://meta/17.json"),
   clientUrl |-> Str("https://meta/client.jar"),
   javaMajor |-> Num(21),
   libraries |->
     << [path |-> Str("a.jar"), rulesIsArray |-> FALSE, rules |-> <<>>],
        [path |-> Str("b.jar"), rulesIsArray |-> TRUE,
         rules |-> << [action |-> Str("disallow"), osName |-> Str("linux"),
                       osArch |-> Undefined] >>] >>]

\* A well-formed version document without mainClass, client download and
\* asset index, whose one library has no artifact path.
PartialVersionDoc ==
  [GoodVersionDoc EXCEPT
     !.mainClass = Undefined, !.clientUrl = Undefined,
     !.assetIndexUrl = Undefined,
     !.libraries = << [path |-> Undefined, rulesIsArray |-> FALSE,
                       rules |-> <<>>] >>]

\* A version document whose second library reaches the file of the first
\* through a directory that is not on the disk.
AliasVersionDoc ==
  [GoodVersionDoc EXCEPT
     !.libraries =
       << [path |-> Str("a.jar"), rulesIsArray |-> FALSE, rules |-> <<>>],
          [path |-> Str("nothere/../a.jar"), rulesIsArray |-> FALSE,
           rules |-> <<>>] >>]

\* A version document whose libraries leave the libraries directory: one
\* names a file of the directory above, one the directory above itself.
EscapeVersionDoc ==
  [GoodVersionDoc EXCEPT
     !.libraries =
       << [path |-> Str("../y.jar"), rulesIsArray |-> FALSE, rules |-> <<>>],
          [path |-> Str("sub/.."), rulesIsArray |-> FALSE,
           rules |-> <<>>] >>]

TraversalDocs == {AliasVersionDoc, EscapeVersionDoc}

\* An asset index in which two logical names carry the same hash.
GoodAssetDoc ==
  [objects |-> << [name |-> "icons/icon.png", hash |-> Str("ab12")],
                  [name |-> "lang/en.json", hash |-> Str("ab12")] >>]

GoodManifestDoc ==
  [release |-> Str("1.21"), snapshot |-> Str("24w33a"),
   versions |-> << [id |-> Str("1.21"), url |-> Str("https://meta/1.21.json")],
                   [id |-> Str("24w33a"),
                    url |-> Str("https://meta/24w33a.json")] >>]

\* A manifest whose latest release is not among its versions.
DanglingManifestDoc == [GoodManifestDoc EXCEPT !.release = Str("1.22")]

ManifestBodies == {NullManifestDoc, GoodManifestDoc, DanglingManifestDoc}

\* The documents the body of a reply that arrives can parse to: the null
\* document when the body is no document or holds none of the members.
VersionBodies == {NullVersionDoc, GoodVersionDoc, PartialVersionDoc}

AssetBodies == {NullAssetDoc, GoodAssetDoc}

\* reply->readAll() of a download: the bytes served for a reply that
\* succeeded, nothing for one that failed.
ReplyBytes(url, outcome) == IF outcome = "ok" THEN "bytes of " \o url ELSE ""

\* The outcomes a download of `url` can have when `failed` downloads have
\* failed so far: a request of the empty URL cannot succeed.
ReplyOutcomes(url, failed) ==
  IF url = "" THEN {"error"}
  ELSE IF failed < MaxFailures THEN {"ok", "error"}
  ELSE {"ok"}

\* The local files under the data directory a session can start from: none,
\* or one left behind by an earlier session (whatever its content), a library
\* or an asset object.
InitialFiles ==
  {<<>>,
   [p \in {librariesDir \o "/a.jar"} |-> "left by an earlier session"],
   [p \in {assetsDir \o "/objects/ab/ab12"} |-> "left by an earlier session"]}

\* ------------------------------------------------------------- directories
\* QDir(d).mkpath("."): goes through d segment by segment and makes every
\* directory it enters that is not there; it stops where a regular file
\* stands in the way.
mkpath(fileSet, dirSet, d) ==
  UNION
    {IF Simple(p)
     THEN IF DirChain(p) \cap fileSet = {} THEN dirSet \cup DirChain(p)
          ELSE dirSet
     ELSE UNION
            {LET at[i \in 0..Len(segs)] ==
                   IF i = 0
                   THEN [dir |-> IF p # "" /\ SubSeq(p, 1, 1) = "/" THEN "/"
                                 ELSE ".",
                         made |-> dirSet, ok |-> TRUE]
                   ELSE CHOOSE next \in
                          {IF ~w.ok THEN w
                           ELSE IF segs[i] = ".."
                             THEN [w EXCEPT !.dir = Parent(w.dir)]
                           ELSE IF Child(w.dir, segs[i]) \in fileSet
                             THEN [w EXCEPT !.ok = FALSE]
                           ELSE [dir |-> Child(w.dir, segs[i]),
                                 made |-> w.made \cup {Child(w.dir, segs[i])},
                                 ok |-> TRUE] :
                           w \in {at[i - 1]}} : TRUE
             IN at[Len(segs)].made : segs \in {Segments(p)}} :
     p \in {d}}

\* The file `name` holds `bytes`, the other files are as they were.
Store(fileMap, name, bytes) ==
  [p \in (DOMAIN fileMap) \cup {name} |->
     IF p = name THEN bytes ELSE fileMap[p]]

\* Whether QFile::open(WriteOnly) succeeds on `path`, which is resolved as
\* `found`: the path is not empty and does not name a directory, and every
\* directory it goes through is there.
CanOpen(dirSet, path, found) ==
  /\ path # ""
  /\ ~NamesDirectory(path)
  /\ found.ok
  /\ ~IsDir(dirSet, found.name)

\* QFile::open(WriteOnly), write, close: the file holds the bytes afterwards
\* when it could be opened; a failed open leaves the files as they were.
WriteFile(fileMap, dirSet, path, bytes) ==
  CHOOSE written \in
    {IF CanOpen(dirSet, path, found)
     THEN Store(fileMap, found.name, bytes)
     ELSE fileMap : found \in {Lookup(dirSet, path)}} : TRUE

\* ------------------------------------------------- inputs of the pure parts
\* A library entry without a rules member and without an artifact path.
NoLibrary == [path |-> Undefined, rulesIsArray |-> FALSE, rules |-> <<>>]

\* The rule clauses drawn for the rule filter: the action is allow, disallow
\* or absent; os.name is absent, this platform or another; os.arch is absent
\* or an architecture.
RuleClauses ==
  [action : {Str("allow"), Str("disallow"), Undefined},
   osName : {Undefined, Str("linux"), Str("osx")},
   osArch : {Undefined, Str("x86_64")}]

\* The sequences over S of length at most n.
SeqsUpTo(S, n) == UNION {[1..k -> S] : k \in 0..n}

\* The library entries drawn for the rule filter: no rules member, or a rule
\* array of at most n clauses.
RuleInputs(n) ==
  {NoLibrary} \cup
  {[path |-> Str("a.jar"), rulesIsArray |-> TRUE, rules |-> rs] :
     rs \in SeqsUpTo(RuleClauses, n)}

\* The library entries drawn for the version resolver.
ResolveLibraries ==
  LET allowLinux == [action |-> Str("allow"), osName |-> Str("linux"),
                     osArch |-> Undefined]
      allowOsx == [action |-> Str("allow"), osName |-> Str("osx"),
                   osArch |-> Undefined]
      disallowLinux == [action |-> Str("disallow"), osName |-> Str("linux"),
                        osArch |-> Undefined]
  IN {[path |-> pa, rulesIsArray |-> FALSE, rules |-> <<>>] :
        pa \in {Str("a.jar"), Str("b.jar"), Undefined}}
     \cup
     {[path |-> pa, rulesIsArray |-> TRUE, rules |-> rs] :
        pa \in {Str("a.jar"), Str("b.jar"), Undefined},
        rs \in {<<allowLinux>>, <<allowOsx>>, <<allowLinux, disallowLinux>>}}

\* The version documents drawn for the version resolver, of at most n
\* library entries.
ResolveDocs(n) ==
  {[GoodVersionDoc EXCEPT !.mainClass = mc, !.clientUrl = cu,
                          !.javaMajor = jv, !.libraries = ls] :
     mc \in {Undefined, GoodVersionDoc.mainClass},
     cu \in {Undefined, GoodVersionDoc.clientUrl},
     jv \in {Undefined, Num(21), Num(65544)},
     ls \in SeqsUpTo(ResolveLibraries, n)}

\* The version id the resolver is asked for.
ResolveId == "1.21"

\* The library entries drawn for the launch builder: three without rules and
\* one that the rule filter excludes.
LaunchLibraries ==
  {[path |-> pa, rulesIsArray |-> FALSE, rules |-> <<>>] :
     pa \in {Str("a.jar"), Str("b.jar"), Undefined}}
  \cup
  {[path |-> Str("c.jar"), rulesIsArray |-> TRUE,
    rules |-> << [action |-> Str("allow"), osName |-> Str("osx"),
                  osArch |-> Undefined] >>]}

\* The version documents drawn for the launch builder, of at most n library
\* entries.
LaunchDocs(n) ==
  {[GoodVersionDoc EXCEPT !.mainClass = mc, !.libraries = ls] :
     mc \in {Undefined, GoodVersionDoc.mainClass},
     ls \in SeqsUpTo(LaunchLibraries, n)}

\* QNetworkDiskCache::setCacheDirectory (line 101): the directories the
\* cache lays out under <cache>/network.
DiskCacheDirs ==
  LET network == filePath(getCacheDirectory, "network")
      hex == {"0", "1", "2", "3", "4", "5", "6", "7",
              "8", "9", "a", "b", "c", "d", "e", "f"}
  IN DirChain(network \o "/prepared")
       \cup UNION {DirChain(network \o "/data8/" \o h) : h \in hex}

\* `url` written so that it can stand in a file name: "/" becomes "-s" and
\* "-" becomes "--", so two URLs never give one name.
CacheKey(url) ==
  LET kept[k \in 0..Len(url)] ==
        IF k = 0 THEN ""
        ELSE kept[k - 1] \o (IF SubSeq(url, k, k) = "/" THEN "-s"
                             ELSE IF SubSeq(url, k, k) = "-" THEN "--"
                             ELSE SubSeq(url, k, k))
  IN kept[Len(url)]

\* QNetworkDiskCache: the file that holds the cache entry of `url`, under
\* one of the sixteen data8 directories.  The cache names the file and picks
\* the directory by a digest of the URL, which tells URLs apart; here the
\* URL itself, written as a file name, names the file, and its length picks
\* the directory.
CacheFile(url) ==
  LET hex == <<"0", "1", "2", "3", "4", "5", "6", "7",
               "8", "9", "a", "b", "c", "d", "e", "f">>
  IN filePath(getCacheDirectory, "network") \o "/data8/"
       \o hex[(Len(url) % 16) + 1] \o "/" \o CacheKey(url) \o ".d"

\* The bytes of the cache entry of a reply of `url`: what the cache keeps of
\* the request and the document the reply body parses to.
CacheEntry(url, body) == <<"cache entry", url, body>>

\* Whether `p` lies in the directory of the network cache.
InNetworkCache(p) ==
  \E network \in {filePath(getCacheDirectory, "network") \o "/"} :
    Len(p) > Len(network) /\ SubSeq(p, 1, Len(network)) = network

\* How a request of `url` on the client of line 103 can finish, when the
\* remote side serves the documents `bodies`: the document fetchJson will
\* parse (line 191) and the files on the disk afterwards.  A request that
\* fails gives the null document and leaves the cache as it is.  A reply that
\* arrives gives any of the documents, the null document when its body is no
\* document, and is saved as the cache entry of the URL whatever its body
\* (the remote side lets its replies be cached); a reply that comes from the
\* cache is the entry of the URL already.  A request of the empty URL can
\* only fail.  The cache stays below its maximum size, so no other entry is
\* evicted.
FetchOutcomes(fileMap, url, bodies, null) ==
  {[body |-> null, files |-> fileMap]}
    \cup IF url = "" THEN {}
         ELSE UNION {{[body |-> b, files |-> Store(fileMap, name,
                                                   CacheEntry(url, b))] :
                        b \in bodies} : name \in {CacheFile(url)}}

\* -------------------------------------------------------------------- state
VARIABLES
  manifest,    \* the VersionManifest captured by the Launch handler
  stack,       \* the Launch handlers in progress, innermost last
  launchers,   \* the Launcher objects, in order of construction
  files,       \* local regular files: path -> bytes
  dirs,        \* local directories
  lib,         \* rule filter: the library entry under evaluation
  libOut,      \* rule filter: "none", "included" or "excluded"
  doc,         \* version resolver: the version document handed to fromJson
  info         \* version resolver: <<>>, or <<the VersionInfo returned>>

pipeVars == <<manifest, stack, launchers, files, dirs>>
ruleVars == <<lib, libOut>>
docVars == <<doc, info>>
vars == <<manifest, stack, launchers, files, dirs, lib, libOut, doc, info>>

Top == stack[Len(stack)]

\* Events are delivered by the main loop when no handler runs, and by the
\* processEvents() calls of fetchJson while the innermost handler waits.
EventLoopRunning ==
  IF stack = <<>> THEN TRUE ELSE Top.pc \in {"fetchVersion", "fetchAssets"}

\* The state once the main window is up: the VersionManager constructor has
\* laid out its disk cache, and the manifest is fetched through it (lines
\* 99-105, 166-168, 333-335), on one of the disks a session can start from.
Init ==
  /\ \E disk \in InitialFiles :
       \E o \in FetchOutcomes(disk, PISTON_URL, ManifestBodies,
                              NullManifestDoc) :
         /\ manifest = VersionManifestFromJson(o.body)
         /\ files = o.files
  /\ stack = <<>>
  /\ launchers = <<>>
  /\ dirs = {"/"} \cup UNION {DirChain(DirOf(p)) : p \in DOMAIN files}
                  \cup DiskCacheDirs
  /\ lib = NoLibrary /\ libOut = "none"
  /\ doc = NullVersionDoc /\ info = <<>>

\* The reply of a handler that waits in fetchJson: <<>> while it is running,
\* <<the document its body parses to>> once it has finished.
Waiting == <<>>

\* The Launch button is pressed (lines 343-345): the handler starts and
\* requests the document of the latest release (lines 172-175, 186).
PressLaunch ==
  /\ EventLoopRunning
  /\ Len(stack) + Len(launchers) < MaxLaunches
  /\ stack' = Append(stack, [pc |-> "fetchVersion", reply |-> Waiting])
  /\ UNCHANGED <<manifest, launchers, files, dirs, ruleVars, docVars>>

\* The reply of a version request finishes inside a processEvents() call
\* (line 188) of the innermost handler, which may be the handler of the
\* request or one nested in it: the cache holds the reply, and the handler
\* of the request still waits in fetchJson.
VersionReplyFinished ==
  /\ EventLoopRunning
  /\ \E k \in 1..Len(stack) :
       /\ stack[k].pc = "fetchVersion" /\ stack[k].reply = Waiting
       /\ \E o \in FetchOutcomes(files,
                                 VersionUrlOf(manifest, manifest.latestRelease),
                                 VersionBodies, NullVersionDoc) :
            /\ stack' = [stack EXCEPT ![k].reply = <<o.body>>]
            /\ files' = o.files
  /\ UNCHANGED <<manifest, launchers, dirs, ruleVars, docVars>>

\* fetchVersion returns in the innermost handler, whose reply has finished
\* (lines 187-191, 170-176, 345-346): the document is resolved and the asset
\* index is requested (lines 179-182, 186).
FetchVersionReturns ==
  /\ stack # <<>> /\ Top.pc = "fetchVersion" /\ Top.reply # Waiting
  /\ stack' = [stack EXCEPT ![Len(stack)] =
                 [pc |-> "fetchAssets",
                  version |-> VersionInfoFromJson(manifest.latestRelease,
                                                  Top.reply[1]),
                  reply |-> Waiting]]
  /\ UNCHANGED <<manifest, launchers, files, dirs, ruleVars, docVars>>

\* The reply of an asset-index request finishes inside a processEvents()
\* call (line 188) of the innermost handler: the cache holds the reply, and
\* the handler of the request still waits in fetchJson.
AssetsReplyFinished ==
  /\ EventLoopRunning
  /\ \E k \in 1..Len(stack) :
       /\ stack[k].pc = "fetchAssets" /\ stack[k].reply = Waiting
       /\ \E o \in FetchOutcomes(files, stack[k].version.assetIndex,
                                 AssetBodies, NullAssetDoc) :
            /\ stack' = [stack EXCEPT ![k].reply = <<o.body>>]
            /\ files' = o.files
  /\ UNCHANGED <<manifest, launchers, dirs, ruleVars, docVars>>

\* fetchAssets returns in the innermost handler, whose reply has finished
\* (lines 187-191, 178-183, 346-347): the objects are kept.
FetchAssetsReturns ==
  /\ stack # <<>> /\ Top.pc = "fetchAssets" /\ Top.reply # Waiting
  /\ stack' = [stack EXCEPT ![Len(stack)] =
                 [pc |-> "launchGame", version |-> Top.version,
                  assets |-> Top.reply[1].objects]]
  /\ UNCHANGED <<manifest, launchers, files, dirs, ruleVars, docVars>>

\* The Launcher made by lines 349-350 once launchGame has returned: every
\* download dispatched, the natives directory made, the process started.
NewLauncher(version, assets, fileMap, dirSet) ==
  CHOOSE launcher \in
    {[version |-> version, assets |-> assets,
      requests |-> d.requests, status |-> d.status, pending |-> d.pending,
      game |-> [program |-> jvm, arguments |-> LaunchArgs(version)]] :
       d \in {downloadFiles(version, assets, fileMap, dirSet)}} : TRUE

\* new Launcher(version, assets) and launchGame() (lines 349-350, 230-283).
LaunchGame ==
  /\ stack # <<>> /\ Top.pc = "launchGame"
  /\ launchers' = Append(launchers,
                         NewLauncher(Top.version, Top.assets, files, dirs))
  /\ dirs' = mkpath(DOMAIN files, dirs, nativesDir)
  /\ stack' = SubSeq(stack, 1, Len(stack) - 1)
  /\ UNCHANGED <<manifest, files, ruleVars, docVars>>

\* pending.take(reply): the path of the reply, "" when it has none.
Take(pending, reply) ==
  IF reply \in DOMAIN pending THEN pending[reply] ELSE ""

\* Mutant of Remove: the failure isolation is lost, settling one reply empties
\* the whole registry.
RemoveAll(pending, reply) == <<>>

\* Mutant of Remove: the entry of the settled reply stays in the registry.
RemoveNone(pending, reply) == pending

\* pending.take(reply): the registry afterwards, without the reply's entry.
Remove(pending, reply) ==
  [k \in (DOMAIN pending) \ {reply} |-> pending[k]]

\* The finished handler of launcher l for its reply r (lines 287-300).
Finished(l, r, bytes) ==
  \E path \in {Take(l.pending, r)} :
    \E dir \in {DirOf(path)} :
      \E made \in {mkpath(DOMAIN files, dirs, dir)} :
        /\ dirs' = made
        /\ files' = WriteFile(files, made, path, bytes)

\* The downloads of a proper URL that have failed so far.
FailedDownloads ==
  Cardinality(UNION {
    {<<i, r>> : r \in {k \in 1..Len(launchers[i].status) :
                         /\ launchers[i].status[k] = "error"
                         /\ launchers[i].requests[k].url # ""}} :
    i \in 1..Len(launchers)})

\* A download of launcher i ends, well or badly, and its handler runs.
DownloadFinished ==
  /\ EventLoopRunning
  /\ UNCHANGED <<manifest, stack, ruleVars, docVars>>
  /\ \E i \in 1..Len(launchers) :
       \E r \in {k \in 1..Len(launchers[i].status) :
                   launchers[i].status[k] = "running"} :
         \E outcome \in ReplyOutcomes(launchers[i].requests[r].url,
                                      FailedDownloads) :
           /\ launchers' =
                [launchers EXCEPT
                   ![i].status[r] = outcome,
                   ![i].pending = Remove(launchers[i].pending, r)]
           /\ Finished(launchers[i], r,
                       ReplyBytes(launchers[i].requests[r].url, outcome))

Next ==
  \/ PressLaunch
  \/ VersionReplyFinished
  \/ FetchVersionReturns
  \/ AssetsReplyFinished
  \/ FetchAssetsReturns
  \/ LaunchGame
  \/ DownloadFinished

Spec == Init /\ [][Next]_vars

\* The program under the scheduling the code relies on: every reply that was
\* dispatched finishes once the event loop runs, and the synchronous
\* launchGame call of a handler runs to its end.
SpecFair == Spec /\ WF_vars(DownloadFinished) /\ WF_vars(LaunchGame)

\* -------------------------------------------------------------- rule filter
\* The rule filter alone, on every drawn library entry.
InitRules ==
  /\ lib \in RuleInputs(MaxRules) /\ libOut = "none"
  /\ manifest = VersionManifestFromJson(NullManifestDoc)
  /\ stack = <<>> /\ launchers = <<>> /\ files = <<>> /\ dirs = {"/"}
  /\ doc = NullVersionDoc /\ info = <<>>

\* Lines 67-76 run on the entry.
EvaluateRules ==
  /\ libOut = "none"
  /\ libOut' = IF LibraryIncluded(lib) THEN "included" ELSE "excluded"
  /\ UNCHANGED <<lib, pipeVars, docVars>>

NextRules == EvaluateRules

SpecRules == InitRules /\ [][NextRules]_vars

\* --------------------------------------------------------- version resolver
\* VersionInfo::fromJson alone, on every drawn version document.
InitResolve ==
  /\ doc \in ResolveDocs(MaxLibs) /\ info = <<>>
  /\ manifest = VersionManifestFromJson(NullManifestDoc)
  /\ stack = <<>> /\ launchers = <<>> /\ files = <<>> /\ dirs = {"/"}
  /\ lib = NoLibrary /\ libOut = "none"

\* VersionInfo::fromJson(id, data) returns (lines 57-80).
ResolveVersion ==
  /\ info = <<>>
  /\ info' = <<VersionInfoFromJson(ResolveId, doc)>>
  /\ UNCHANGED <<doc, pipeVars, ruleVars>>

NextResolve == ResolveVersion

SpecResolve == InitResolve /\ [][NextResolve]_vars

\* ----------------------------------------------------------- launch builder
\* A version document is resolved and launched on an empty disk with the
\* two-name asset index.
InitLaunch ==
  /\ doc \in LaunchDocs(MaxLibs) /\ info = <<>>
  /\ manifest = VersionManifestFromJson(NullManifestDoc)
  /\ stack = <<>> /\ launchers = <<>> /\ files = <<>>
  /\ dirs = {"/"} \cup DiskCacheDirs
  /\ lib = NoLibrary /\ libOut = "none"

\* new Launcher(version, assets) and launchGame() on the resolved version
\* (lines 349-350, 230-283).
LaunchResolved ==
  /\ info # <<>> /\ launchers = <<>>
  /\ launchers' = <<NewLauncher(info[1], GoodAssetDoc.objects, files, dirs)>>
  /\ dirs' = mkpath(DOMAIN files, dirs, nativesDir)
  /\ UNCHANGED <<manifest, stack, files, ruleVars, docVars>>

NextLaunch == ResolveVersion \/ LaunchResolved

SpecLaunch == InitLaunch /\ [][NextLaunch]_vars

\* ---------------------------------------------------------- path traversal
\* A version document whose library paths hold ".." segments is resolved
\* and launched on a disk an earlier session left, and its downloads finish.
InitTraversal ==
  /\ doc \in TraversalDocs /\ info = <<>>
  /\ manifest = VersionManifestFromJson(NullManifestDoc)
  /\ stack = <<>> /\ launchers = <<>>
  /\ files \in InitialFiles
  /\ dirs = {"/"} \cup UNION {DirChain(DirOf(p)) : p \in DOMAIN files}
                  \cup DiskCacheDirs
  /\ lib = NoLibrary /\ libOut = "none"

NextTraversal == ResolveVersion \/ LaunchResolved \/ DownloadFinished

SpecTraversal == InitTraversal /\ [][NextTraversal]_vars

\* ------------------------------------------------------------------ claims
LauncherIds == 1..Len(launchers)

\* C1: the runtime process of a launcher is started only once none of the
\* downloads that launcher dispatched is still pending.
C1_LaunchAfterDownloads ==
  \A i \in LauncherIds :
    launchers[i].game.program = jvm => DOMAIN launchers[i].pending = {}

\* C2: the pending registry of a launcher never holds two replies with the
\* same destination path.
C2_OneTaskPerPath ==
  \A i \in LauncherIds :
    \A r1, r2 \in DOMAIN launchers[i].pending :
      r1 # r2 => launchers[i].pending[r1] # launchers[i].pending[r2]

\* Launcher i has settled with every one of its downloads succeeded.
AllSucceeded(i) ==
  /\ DOMAIN launchers[i].pending = {}
  /\ \A r \in 1..Len(launchers[i].status) : launchers[i].status[r] = "ok"

\* C3: a run that starts after an earlier run of the same version and asset
\* index has settled with every download succeeded sends no request.
C3_SecondRunIdle ==
  [][\A j \in 1..Len(launchers') :
       (/\ j > Len(launchers)
        /\ \E i \in LauncherIds :
             /\ AllSucceeded(i)
             /\ launchers[i].version = launchers'[j].version
             /\ launchers[i].assets = launchers'[j].assets)
       => launchers'[j].requests = <<>>]_vars

\* C3 witness: a run of the full version that sent requests and saw them all
\* succeed, followed by a run of the same inputs that sent none.
C3_Witness ==
  \E i, j \in LauncherIds :
    /\ i < j
    /\ AllSucceeded(i)
    /\ Len(launchers[i].requests) >= 3
    /\ launchers[i].version = launchers[j].version
    /\ launchers[i].assets = launchers[j].assets
    /\ launchers[j].requests = <<>>

\* A clause matches when its os.name is this platform.
C4_Matches(rule) == rule.osName = Str(OS_NAME)

\* An allow clause is violated when it does not match, a disallow clause
\* when it matches.
C4_Violated(rule) ==
  \/ rule.action = Str("allow") /\ ~C4_Matches(rule)
  \/ rule.action = Str("disallow") /\ C4_Matches(rule)

\* C4: a library without rules is included, and one with rules is included
\* exactly when none of its clauses is violated.
C4_RuleConjunction ==
  libOut # "none" =>
    (libOut = "included" <=>
       (~lib.rulesIsArray \/
        \A k \in 1..Len(lib.rules) : ~C4_Violated(lib.rules[k])))

\* C4 witness: a rule list of full length whose only violated clause is the
\* last one has excluded the library.
C4_Witness ==
  /\ libOut = "excluded"
  /\ Len(lib.rules) = MaxRules
  /\ \A k \in 1..(MaxRules - 1) : ~C4_Violated(lib.rules[k])
  /\ lib.rules[1].action = Str("allow")

\* The architecture of the host the launcher is built for.
C5_HostArch == "x86_64"

\* A clause matches when it names this platform's os.name or its os.arch.
C5_Matches(rule) ==
  rule.osName = Str(OS_NAME) \/ rule.osArch = Str(C5_HostArch)

C5_Violated(rule) ==
  \/ rule.action = Str("allow") /\ ~C5_Matches(rule)
  \/ rule.action = Str("disallow") /\ C5_Matches(rule)

\* C5: clauses match on os.name or on os.arch, so a library is included
\* exactly when no clause is violated under that matching.
C5_ArchMatches ==
  libOut # "none" =>
    (libOut = "included" <=>
       (~lib.rulesIsArray \/
        \A k \in 1..Len(lib.rules) : ~C5_Violated(lib.rules[k])))

\* The positions of the document's library entries that pass the rule filter.
Surviving == {k \in 1..Len(doc.libraries) : LibraryIncluded(doc.libraries[k])}

\* The j-th surviving position, counted from 1.
NthSurviving(j) ==
  CHOOSE k \in Surviving : Cardinality({m \in Surviving : m < k}) = j - 1

\* C6: the libraries of the VersionInfo are the paths of the surviving
\* entries, each once, in document order.
C6_FilteredSubsequence ==
  info # <<>> =>
    /\ Len(info[1].libraries) = Cardinality(Surviving)
    /\ \A j \in 1..Len(info[1].libraries) :
         info[1].libraries[j] = toString(doc.libraries[NthSurviving(j)].path)

\* C6 witness: a resolved document whose second entry is filtered out between
\* two surviving entries of different paths.
C6_Witness ==
  /\ info # <<>>
  /\ Len(doc.libraries) = 3
  /\ Surviving = {1, 3}
  /\ doc.libraries[1].path = Str("b.jar")
  /\ doc.libraries[3].path = Str("a.jar")

\* assetsRoot/indexes/<assetsId>.json of a launcher.
C7_IndexPath(l) == assetsDir \o "/indexes/" \o l.version.assets \o ".json"

\* C7: once every download of a run that fetched an asset index has settled,
\* the asset-index file of that run exists.
C7_IndexPersisted ==
  \A i \in LauncherIds :
    (DOMAIN launchers[i].pending = {} /\ launchers[i].assets # <<>>)
      => Clean(C7_IndexPath(launchers[i])) \in DOMAIN files

\* C8: when the latest release is no key of the manifest's version URLs, no
\* VersionInfo is produced and no handler gets past the version lookup.
C8_UnknownVersionHalts ==
  manifest.latestRelease \notin DOMAIN manifest.versionUrls =>
    /\ launchers = <<>>
    /\ \A k \in 1..Len(stack) : stack[k].pc = "fetchVersion"

\* The VersionInfo values the pipeline holds past version resolution.
ResolvedVersions ==
  {stack[k].version : k \in {n \in 1..Len(stack) : stack[n].pc # "fetchVersion"}}
    \cup {launchers[i].version : i \in LauncherIds}

\* C9: no download is dispatched and no process is started for a VersionInfo
\* made from a parsed document (one with a type) that lacks mainClass or the
\* client-jar URL.
C9_MalformedVersionHalts ==
  \A i \in LauncherIds :
    launchers[i].version.type # "" =>
      (launchers[i].version.mainClass # "" /\ launchers[i].version.clientJar # "")

\* C10: no stage runs on the result of a failed fetch: no Launcher is made
\* after a failed manifest fetch, no handler gets past a failed version
\* fetch, and no Launcher is made after a failed asset-index fetch.
C10_FetchErrorHalts ==
  /\ manifest = VersionManifestFromJson(NullManifestDoc) => launchers = <<>>
  /\ \A v \in ResolvedVersions :
       v # VersionInfoFromJson(manifest.latestRelease, NullVersionDoc)
  /\ \A i \in LauncherIds : launchers[i].assets # NullAssetDoc.objects

\* The replies of launcher l that have not finished.
Running(l) == {r \in 1..Len(l.status) : l.status[r] = "running"}

\* C11: a launcher never sends a request after its dispatch, a settled reply
\* never runs again, at most one reply settles in a step, and every other
\* reply that is still running keeps its entry and its path in the registry.
C11_FailureIsolation ==
  [][\A i \in LauncherIds :
       /\ launchers'[i].requests = launchers[i].requests
       /\ Running(launchers'[i]) \subseteq Running(launchers[i])
       /\ Cardinality(Running(launchers[i]) \ Running(launchers'[i])) <= 1
       /\ \A r \in Running(launchers'[i]) :
            /\ r \in DOMAIN launchers[i].pending
            /\ r \in DOMAIN launchers'[i].pending
            /\ launchers'[i].pending[r] = launchers[i].pending[r]]_vars

\* C11 witness: a launcher with a failed download, a sibling that settled
\* well, and a sibling that is still running and still in the registry.
C11_Witness ==
  \E i \in LauncherIds :
    \E r1, r2, r3 \in 1..Len(launchers[i].status) :
      /\ launchers[i].status[r1] = "error"
      /\ launchers[i].requests[r1].url # ""
      /\ launchers[i].status[r2] = "ok"
      /\ launchers[i].status[r3] = "running"
      /\ r3 \in DOMAIN launchers[i].pending

\* Local storage after the finished handler has run for a reply of
\* destination `path` and body `bytes` on storage fs = [files, dirs].
C12_After(fs, path, bytes) ==
  LET made == mkpath(DOMAIN fs.files, fs.dirs, DirOf(path))
  IN [files |-> WriteFile(fs.files, made, path, bytes), dirs |-> made]

\* 1 for a failed download of a proper URL, else 0.
C12_Failure(url, outcome) == IF outcome = "error" /\ url # "" THEN 1 ELSE 0

\* C12: when the last two replies of a run are in flight and no other run has
\* one, the final local storage is the same whichever of the two completes
\* first, for every pair of outcomes the two replies can have.
C12_OrderIrrelevant ==
  \A i \in LauncherIds :
    \A r1, r2 \in Running(launchers[i]) :
      (/\ Running(launchers[i]) = {r1, r2} /\ r1 # r2
       /\ \A j \in LauncherIds \ {i} : Running(launchers[j]) = {})
      => LET q1 == launchers[i].requests[r1]
             q2 == launchers[i].requests[r2]
             now == [files |-> files, dirs |-> dirs]
         IN \A o1 \in ReplyOutcomes(q1.url, FailedDownloads) :
              \A o2 \in ReplyOutcomes(q2.url,
                                      FailedDownloads + C12_Failure(q1.url, o1)) :
                C12_After(C12_After(now, q1.path, ReplyBytes(q1.url, o1)),
                          q2.path, ReplyBytes(q2.url, o2))
                = C12_After(C12_After(now, q2.path, ReplyBytes(q2.url, o2)),
                            q1.path, ReplyBytes(q1.url, o1))

\* C13: while a Launch handler is in progress no further handler starts, no
\* reply of an earlier launch settles and no file outside the network cache
\* changes; the only steps are the handler's own stages.
C13_FetchExclusive ==
  [][stack # <<>> =>
       /\ Len(stack') <= Len(stack)
       /\ \A p \in (DOMAIN files) \cup (DOMAIN files') :
            ~InNetworkCache(p) =>
              /\ p \in (DOMAIN files) \cap (DOMAIN files')
              /\ files'[p] = files[p]
       /\ \A i \in LauncherIds :
            launchers'[i].status = launchers[i].status]_vars

\* Every task of a run of `version` and `assets`, in the order downloadFiles
\* examines them: what it dispatches when nothing is present.
Tasks(version, assets) == downloadFiles(version, assets, <<>>, {}).requests

\* Whether `path` names something that is on the disk: a directory, or a
\* regular file under a spelling that can name one.
C14_Present(path) ==
  /\ path # ""
  /\ Lookup(dirs, path).ok
  /\ \/ Clean(path) \in dirs
     \/ Clean(path) \in DOMAIN files /\ ~NamesDirectory(path)

\* The paths of the tasks launcher l dropped when it was made: those for
\* which it sent no request.
C14_Dropped(l) ==
  UNION {{tasks[k].path : k \in 1..Len(tasks)} : tasks \in
           {Tasks(l.version, l.assets)}}
    \ {l.requests[r].path : r \in 1..Len(l.requests)}

\* C14: a Launcher is made without a request and without a registry entry
\* for any of its tasks whose path is present when it is made; a file
\* outside the network cache changes only when a reply dispatched for its
\* path settles, and no reply of a run changes the file of a task the run
\* dropped.
C14_PresentTaskDropped ==
  [][/\ \A j \in 1..Len(launchers') :
          j > Len(launchers) =>
            LET tasks == Tasks(launchers'[j].version, launchers'[j].assets)
            IN \A k \in 1..Len(tasks) :
                 C14_Present(tasks[k].path) =>
                   /\ \A r \in 1..Len(launchers'[j].requests) :
                        launchers'[j].requests[r].path # tasks[k].path
                   /\ \A r \in DOMAIN launchers'[j].pending :
                        launchers'[j].pending[r] # tasks[k].path
     /\ \A p \in DOMAIN files :
          /\ p \in DOMAIN files'
          /\ (files'[p] # files[p] /\ ~InNetworkCache(p)) =>
               \E i \in LauncherIds :
                 \E r \in Running(launchers[i]) \ Running(launchers'[i]) :
                   Clean(launchers[i].requests[r].path) = p
     /\ \A i \in LauncherIds :
          Running(launchers[i]) # Running(launchers'[i]) =>
            \A path \in C14_Dropped(launchers[i]) :
              \A p \in {Clean(path)} :
                p \in DOMAIN files => files'[p] = files[p]]_vars

\* The position of the first `sep` in s, 0 when there is none.
C15_Find(s, sep) ==
  LET at == {i \in 1..Len(s) : SubSeq(s, i, i) = sep}
  IN IF at = {} THEN 0 ELSE CHOOSE i \in at : \A j \in at : i <= j

RECURSIVE C15_Split(_, _)
\* The entries of the list s, which `sep` separates.
C15_Split(s, sep) ==
  LET k == C15_Find(s, sep)
  IN IF k = 0 THEN <<s>>
     ELSE <<SubSeq(s, 1, k - 1)>> \o C15_Split(SubSeq(s, k + 1, Len(s)), sep)

\* The argument that follows "-cp" in the argument vector of launcher l.
C15_ClasspathArg(l) ==
  l.game.arguments[1 + CHOOSE k \in 1..Len(l.game.arguments) :
                         l.game.arguments[k] = "-cp"]

\* C15: the classpath of a launcher splits at ":" into one entry per library
\* of its VersionInfo, in order, each the libraries directory plus the
\* relative path and each the path of that library's download task, and one
\* last entry, the client jar of the version directory.
C15_ClasspathOrder ==
  \A i \in LauncherIds :
    LET l == launchers[i]
        libs == l.version.libraries
        entries == C15_Split(C15_ClasspathArg(l), ":")
        tasks == Tasks(l.version, l.assets)
    IN /\ Len(entries) = Len(libs) + 1
       /\ \A k \in 1..Len(libs) :
            /\ entries[k] = "/data/libraries/" \o libs[k]
            /\ entries[k] = tasks[k].path
            /\ files = <<>> => entries[k] = l.requests[k].path
       /\ entries[Len(entries)] =
            "/data/versions/" \o l.version.id \o "/client.jar"
       /\ entries[Len(entries)] = tasks[Len(tasks)].path

\* C15 witness: a launcher of three different libraries, b.jar first.
C15_Witness ==
  /\ launchers # <<>>
  /\ launchers[1].version.libraries = <<"b.jar", "", "a.jar">>
  /\ Len(launchers[1].requests) = 6

\* C16: the argument vector of a launcher is, in this order, the four natives
\* properties, the brand and version properties, -cp and the classpath, the
\* main class, then --username, --version, --gameDir, --assetsDir,
\* --assetIndex, --accessToken with an empty value and --versionType; it
\* holds none of --uuid, --clientId, --xuid, --userType.
C16_ArgumentOrder ==
  \A i \in LauncherIds :
    LET a == launchers[i].game.arguments
        v == launchers[i].version
    IN /\ Len(a) = 23
       /\ SubSeq(a, 1, 6) =
            << "-Djava.library.path=/cache/natives",
               "-Djna.tmpdir=/cache/natives",
               "-Dorg.lwjgl.system.SharedLibraryExtractPath=/cache/natives",
               "-Dio.netty.native.workdir=/cache/natives",
               "-Dminecraft.launcher.brand=Ametrine",
               "-Dminecraft.launcher.version=0.1.0" >>
       /\ a[7] = "-cp"
       /\ C15_Split(a[8], ":")[Len(v.libraries) + 1] =
            "/data/versions/" \o v.id \o "/client.jar"
       /\ a[9] = v.mainClass
       /\ SubSeq(a, 10, 23) =
            << "--username", "joebiden",
               "--version", v.id,
               "--gameDir", "/data/instances/" \o v.id \o "/minecraft",
               "--assetsDir", "/data/assets",
               "--assetIndex", v.assets,
               "--accessToken", "",
               "--versionType", v.type >>
       /\ \A k \in 1..Len(a) :
            a[k] \notin {"--uuid", "--clientId", "--xuid", "--userType"}

\* C16 witness: a launcher of a version with a main class and two libraries.
C16_Witness ==
  /\ launchers # <<>>
  /\ launchers[1].version.mainClass = "net.minecraft.client.main.Main"
  /\ launchers[1].version.type = "release"
  /\ Len(launchers[1].version.libraries) = 2
  /\ Len(launchers[1].game.arguments) = 23

\* C17: a step in which a reply of a launcher settles takes exactly one entry
\* out of that launcher's registry and any other step leaves the registry as
\* it is; and the registry of every launcher is eventually empty for good.
C17_RegistryDrains ==
  /\ [][\A i \in LauncherIds :
          IF Running(launchers'[i]) # Running(launchers[i])
          THEN /\ DOMAIN launchers'[i].pending \subseteq DOMAIN launchers[i].pending
               /\ Cardinality(DOMAIN launchers'[i].pending) =
                    Cardinality(DOMAIN launchers[i].pending) - 1
          ELSE launchers'[i].pending = launchers[i].pending]_vars
  /\ \A i \in 1..MaxLaunches :
       <>[](i \in LauncherIds => DOMAIN launchers[i].pending = {})

\* C17 witness: a launcher that dispatched three downloads, one of which
\* failed, has an empty registry.
C17_Witness ==
  \E i \in LauncherIds :
    /\ Len(launchers[i].requests) = 3
    /\ \E r \in 1..3 : launchers[i].status[r] = "error"
    /\ DOMAIN launchers[i].pending = {}

\* The registry of every launcher holds exactly its replies that have not
\* finished, each under the non-empty path it was dispatched with.
C18_Registry ==
  \A i \in LauncherIds :
    /\ DOMAIN launchers[i].pending = Running(launchers[i])
    /\ \A r \in DOMAIN launchers[i].pending :
         /\ launchers[i].pending[r] = launchers[i].requests[r].path
         /\ launchers[i].pending[r] # ""

\* C18: at every point the registry of a launcher holds exactly its replies
\* that have not finished, each under the non-empty path it was dispatched
\* with; and the callback of a reply finds the reply in the registry and
\* writes no file but the one its path names: every other file is after the
\* step as it was before.
C18_RegistryExact ==
  /\ C18_Registry
  /\ [][/\ C18_Registry'
        /\ \A i \in LauncherIds :
             \A r \in Running(launchers[i]) \ Running(launchers'[i]) :
               /\ r \in DOMAIN launchers[i].pending
               /\ launchers[i].pending[r] # ""
               /\ \A own \in {Clean(launchers[i].pending[r])} :
                    /\ own # ""
                    /\ DOMAIN files \subseteq DOMAIN files'
                    /\ DOMAIN files' \subseteq DOMAIN files \cup {own}
                    /\ \A p \in DOMAIN files \ {own} :
                         files'[p] = files[p]]_vars

\* C18 witness: a launcher with a finished reply whose file holds the body
\* of the reply and two replies still in the registry.
C18_Witness ==
  \E i \in LauncherIds :
    /\ Cardinality(DOMAIN launchers[i].pending) = 2
    /\ \E r \in 1..Len(launchers[i].status) :
         /\ launchers[i].status[r] = "ok"
         /\ launchers[i].requests[r].path \in DOMAIN files
         /\ files[launchers[i].requests[r].path] =
              ReplyBytes(launchers[i].requests[r].url, "ok")

\* C19: in the step in which a reply finishes, well or badly, the directory
\* of its destination is there and the destination is a file that holds the
\* reply body; after every step the destination of each finished reply
\* exists; and a Launcher made in the step has no request for the
\* destination of a reply that had finished before.
C19_SettledLeavesFile ==
  [][/\ \A i \in LauncherIds :
          \A r \in Running(launchers[i]) \ Running(launchers'[i]) :
            \A path \in {Clean(launchers[i].requests[r].path)} :
              /\ DirOf(path) \in dirs'
              /\ path \in DOMAIN files'
              /\ files'[path] = ReplyBytes(launchers[i].requests[r].url,
                                           launchers'[i].status[r])
     /\ \A i \in 1..Len(launchers') :
          \A r \in 1..Len(launchers'[i].status) :
            launchers'[i].status[r] # "running" =>
              exists(files', dirs', launchers'[i].requests[r].path)
     /\ \A j \in 1..Len(launchers') :
          j > Len(launchers) =>
            \A i \in LauncherIds :
              \A r \in 1..Len(launchers[i].status) :
                launchers[i].status[r] # "running" =>
                  \A q \in 1..Len(launchers'[j].requests) :
                    launchers'[j].requests[q].path
                      # launchers[i].requests[r].path]_vars

====
